---- MODULE Spec2Model ----
(***************************************************************************)
(* Model of src/components/WeatherDashboard.tsx: the probability scorer    *)
(* (calculateProbability, getSeverity), the processing of one weather      *)
(* response into condition records (fetchWeather), and the component's     *)
(* asynchronous orchestration (useEffect, handleSearch, fetchWeather,      *)
(* fetchForecast) with its requests in flight.                             *)
(*                                                                         *)
(* JavaScript numbers are modelled as exact fixed-point rationals: a       *)
(* reading r is the integer r * Scale, thresholds are scaled alike, and    *)
(* the interpolation is carried as an exact fraction num/den up to         *)
(* Math.round.                                                             *)
(***************************************************************************)
EXTENDS Integers, Sequences, FiniteSets, TLC

\* ---------------------------------------------------------------- bounds
\* readings are multiples of 1/Scale
Scale == 10
\* network requests that may be in flight together
MaxPending == 3
\* fetchWeather requests among them
MaxWeather == 2
\* scorer harness: range endpoints, values and scores drawn from these
MaxEdge == 3
MaxProbArg == 4

\* ------------------------------------------------------- JavaScript values
Num(n) == [k |-> "number", n |-> n]
Null == [k |-> "null", n |-> 0]
Undefined == [k |-> "undefined", n |-> 0]
NaN == [k |-> "NaN", n |-> 0]

\* isNaN(value): ToNumber(undefined) is NaN, ToNumber(null) is 0
isNaN(value) == value.k \in {"undefined", "NaN"}

\* a * b on JavaScript values: null converts to 0, undefined to NaN
Times(a, b) ==
  IF isNaN(a) \/ isNaN(b) THEN NaN ELSE Num(a.n * b.n)

\* Math.round(num/den) for den > 0: the nearest integer, ties towards +Infinity
MathRound(num, den) == (2 * num + den) \div (2 * den)

\* ------------------------------------------------------------- the scorer
\* calculateProbability with the descending clamps not swapped
calculateProbability_sameClamps(value, thresholds, baseProb, maxProb, higherValuesGiveHigherProb) ==
  IF value.k = "null" \/ isNaN(value) THEN baseProb
  ELSE IF value.n <= thresholds.min THEN baseProb
  ELSE IF value.n >= thresholds.max THEN maxProb
  ELSE IF higherValuesGiveHigherProb
    THEN MathRound(baseProb * (thresholds.max - thresholds.min)
                     + (value.n - thresholds.min) * (maxProb - baseProb),
                   thresholds.max - thresholds.min)
    ELSE MathRound(maxProb * (thresholds.max - thresholds.min)
                     - (value.n - thresholds.min) * (maxProb - baseProb),
                   thresholds.max - thresholds.min)

\* calculateProbability truncating (Math.floor) instead of rounding
calculateProbability_floor(value, thresholds, baseProb, maxProb, higherValuesGiveHigherProb) ==
  IF value.k = "null" \/ isNaN(value) THEN baseProb
  ELSE IF higherValuesGiveHigherProb
    THEN IF value.n <= thresholds.min THEN baseProb
         ELSE IF value.n >= thresholds.max THEN maxProb
         ELSE (baseProb * (thresholds.max - thresholds.min)
                 + (value.n - thresholds.min) * (maxProb - baseProb))
              \div (thresholds.max - thresholds.min)
    ELSE IF value.n <= thresholds.min THEN maxProb
         ELSE IF value.n >= thresholds.max THEN baseProb
         ELSE (maxProb * (thresholds.max - thresholds.min)
                 - (value.n - thresholds.min) * (maxProb - baseProb))
              \div (thresholds.max - thresholds.min)

\* calculateProbability whose descending interpolation adds instead of subtracting
calculateProbability_plus(value, thresholds, baseProb, maxProb, higherValuesGiveHigherProb) ==
  IF value.k = "null" \/ isNaN(value) THEN baseProb
  ELSE IF higherValuesGiveHigherProb
    THEN IF value.n <= thresholds.min THEN baseProb
         ELSE IF value.n >= thresholds.max THEN maxProb
         ELSE MathRound(baseProb * (thresholds.max - thresholds.min)
                          + (value.n - thresholds.min) * (maxProb - baseProb),
                        thresholds.max - thresholds.min)
    ELSE IF value.n <= thresholds.min THEN maxProb
         ELSE IF value.n >= thresholds.max THEN baseProb
         ELSE MathRound(maxProb * (thresholds.max - thresholds.min)
                          + (value.n - thresholds.min) * (maxProb - baseProb),
                        thresholds.max - thresholds.min)

\* calculateProbability without the value === null test: null converts to 0
calculateProbability_noNull(value, thresholds, baseProb, maxProb, higherValuesGiveHigherProb) ==
  IF isNaN(value) THEN baseProb
  ELSE IF higherValuesGiveHigherProb
    THEN IF value.n <= thresholds.min THEN baseProb
         ELSE IF value.n >= thresholds.max THEN maxProb
         ELSE MathRound(baseProb * (thresholds.max - thresholds.min)
                          + (value.n - thresholds.min) * (maxProb - baseProb),
                        thresholds.max - thresholds.min)
    ELSE IF value.n <= thresholds.min THEN maxProb
         ELSE IF value.n >= thresholds.max THEN baseProb
         ELSE MathRound(maxProb * (thresholds.max - thresholds.min)
                          - (value.n - thresholds.min) * (maxProb - baseProb),
                        thresholds.max - thresholds.min)

\* calculateProbability rounding up (Math.ceil, off by one on whole numbers)
calculateProbability_overshoot(value, thresholds, baseProb, maxProb, higherValuesGiveHigherProb) ==
  IF value.k = "null" \/ isNaN(value) THEN baseProb
  ELSE IF higherValuesGiveHigherProb
    THEN IF value.n <= thresholds.min THEN baseProb
         ELSE IF value.n >= thresholds.max THEN maxProb
         ELSE 1 + ((baseProb * (thresholds.max - thresholds.min)
                      + (value.n - thresholds.min) * (maxProb - baseProb))
                   \div (thresholds.max - thresholds.min))
    ELSE IF value.n <= thresholds.min THEN maxProb
         ELSE IF value.n >= thresholds.max THEN baseProb
         ELSE 1 + ((maxProb * (thresholds.max - thresholds.min)
                      - (value.n - thresholds.min) * (maxProb - baseProb))
                   \div (thresholds.max - thresholds.min))

calculateProbability(value, thresholds, baseProb, maxProb, higherValuesGiveHigherProb) ==
  IF value.k = "null" \/ isNaN(value) THEN baseProb
  ELSE IF higherValuesGiveHigherProb
    THEN IF value.n <= thresholds.min THEN baseProb
         ELSE IF value.n >= thresholds.max THEN maxProb
         ELSE MathRound(baseProb * (thresholds.max - thresholds.min)
                          + (value.n - thresholds.min) * (maxProb - baseProb),
                        thresholds.max - thresholds.min)
    ELSE IF value.n <= thresholds.min THEN maxProb
         ELSE IF value.n >= thresholds.max THEN baseProb
         ELSE MathRound(maxProb * (thresholds.max - thresholds.min)
                          - (value.n - thresholds.min) * (maxProb - baseProb),
                        thresholds.max - thresholds.min)

\* getSeverity with > in place of >= at the upper cutoff
getSeverity_strict(probability) ==
  IF probability > 70 THEN "high"
  ELSE IF probability >= 40 THEN "medium"
  ELSE "low"

getSeverity(probability) ==
  IF probability >= 70 THEN "high"
  ELSE IF probability >= 40 THEN "medium"
  ELSE "low"

Min(a, b) == IF a <= b THEN a ELSE b

\* the scores fetchWeather derives from one response (readings in 1/Scale)
hotProb(maxTemp) ==
  calculateProbability(maxTemp, [min |-> 25 * Scale, max |-> 40 * Scale], 10, 95, TRUE)
coldProb(minTemp) ==
  calculateProbability(minTemp, [min |-> (-5) * Scale, max |-> 10 * Scale], 10, 95, FALSE)
wetProb(rain) ==
  calculateProbability(rain, [min |-> 1 * Scale, max |-> 25 * Scale], 10, 95, TRUE)
windyProb(wind) ==
  calculateProbability(wind, [min |-> 20 * Scale, max |-> 60 * Scale], 10, 95, TRUE)
\* stormProb left with the default scores 10 and 95
stormProb_defaults(rain, wind) ==
  calculateProbability(Times(rain, wind),
                       [min |-> 50 * Scale * Scale, max |-> 500 * Scale * Scale], 10, 95, TRUE)

\* rain * wind is in units of 1/(Scale*Scale)
stormProb(rain, wind) ==
  calculateProbability(Times(rain, wind),
                       [min |-> 50 * Scale * Scale, max |-> 500 * Scale * Scale], 5, 80, TRUE)
\* uncomfortableProb granting the wind bonus from 70 on
uncomfortableProb_bonusAt70(maxTemp, rain, wind) ==
  Min(99, MathRound(6 * (hotProb(maxTemp) + wetProb(rain))
                      + 10 * (IF windyProb(wind) >= 70 THEN 10 ELSE 0), 10))

\* (hotProb + wetProb) * 0.6 + bonus = (6 * (hotProb + wetProb) + 10 * bonus) / 10
uncomfortableProb(maxTemp, rain, wind) ==
  Min(99, MathRound(6 * (hotProb(maxTemp) + wetProb(rain))
                      + 10 * (IF windyProb(wind) > 70 THEN 10 ELSE 0), 10))

\* one condition record (icon and description are presentation only);
\* the record without a measurement carries actualValue undefined
WeatherData(condition, probability, actualValue, unit) ==
  [condition |-> condition, probability |-> probability,
   severity |-> getSeverity(probability), actualValue |-> actualValue, unit |-> unit]

\* the array fetchWeather builds; Cloudy's actualValue (rain * wind) / 10 is
\* kept as the product, in units of 1/(10 * Scale * Scale)
processed(maxTemp, minTemp, rain, wind) ==
  << WeatherData("Sunny", hotProb(maxTemp), maxTemp, "C"),
     WeatherData("Cold", coldProb(minTemp), minTemp, "C"),
     WeatherData("Rainy", wetProb(rain), rain, "mm"),
     WeatherData("Wind", windyProb(wind), wind, "km/h"),
     WeatherData("Cloudy", stormProb(rain, wind), Times(rain, wind), ""),
     WeatherData("Uncomfortable", uncomfortableProb(maxTemp, rain, wind), Undefined, "") >>

\* ---------------------------------------------------------------- state
VARIABLES
  location,        \* useState(''): the search box text
  selectedDate,    \* useState(new Date()): a day, or undefined
  coords,          \* useState(null): the place found, or null
  weatherData,     \* useState([]): the condition records on display
  isLoading,       \* useState(false)
  forecastData,    \* useState([])
  viewMode,        \* useState('current')
  toast,           \* the last toast raised
  geoPending,      \* handleSearch invocations awaiting the geocoder
  weatherPending,  \* fetchWeather invocations awaiting the weather API, oldest first
  forecastPending, \* fetchForecast invocations awaiting the weather API
  shown,           \* history: the (coords, date) whose response built weatherData
  latestPending,   \* history: the fetchWeather invoked last is still awaiting
  carried,         \* history: "held" while the records that were on display when
                   \* the latest search was invoked are still on display,
                   \* "discarded" once fetchWeather has emptied them, else "none"
  args,            \* scorer harness: thresholds, baseProb, maxProb, direction
  calls,           \* scorer harness: the last two calls, value and result each
  built            \* processing harness: the records built from one response

vars == << location, selectedDate, coords, weatherData, isLoading, forecastData,
           viewMode, toast, geoPending, weatherPending, forecastPending, shown,
           latestPending, carried, args, calls, built >>

compVars == << location, selectedDate, coords, weatherData, isLoading, forecastData,
               viewMode, toast, geoPending, weatherPending, forecastPending, shown,
               latestPending, carried >>

harnessVars == << args, calls, built >>

\* ------------------------------------------------------------ environment
Places == {"A", "B"}
NoCoords == "null"
\* the days the user may select; d1 is the day of the first render
Dates == {"d1", "d2"}
NoDate == "undefined"
NoQuery == [coords |-> NoCoords, date |-> NoDate]
\* what the user may type or pick; "" is the empty search box
Terms == {"", "A"}

\* readings the weather API may return for one day (1/Scale units): the
\* values around each cutoff of the scores and bands, and missing values
MaxTempReadings == {Num(250), Num(301), Num(303), Num(354), Num(355), Num(400), Null}
MinTempReadings == {Num(-50), Num(-5), Num(-4), Num(100), Null}
RainReadings == {Num(0), Num(10), Num(20), Num(130), Num(250), Null, Undefined}
WindReadings == {Num(50), Num(482), Num(485), Num(600), Null, Undefined}

\* the responses the component is exercised with: <<maxTemp, minTemp, rain, wind>>
SampleReadings ==
  { << Num(400), Num(100), Num(250), Num(600) >>,
    << Num(303), Num(-5), Null, Undefined >> }

\* one day of the 7-day forecast response
ForecastDay(maxTemp, minTemp, precipitation, windSpeed) ==
  [maxTemp |-> maxTemp, minTemp |-> minTemp, precipitation |-> precipitation,
   windSpeed |-> windSpeed,
   condition |-> IF maxTemp > 25 * Scale THEN "Hot"
                 ELSE IF minTemp < 5 * Scale THEN "Cold"
                 ELSE IF precipitation > 5 * Scale THEN "Rainy"
                 ELSE "Clear"]

\* the forecast responses considered: no day, or one day of each condition
ForecastResponses ==
  { <<>>, << ForecastDay(300, 200, 0, 100), ForecastDay(100, 0, 0, 100),
            ForecastDay(200, 100, 80, 100), ForecastDay(200, 100, 0, 100) >> }

DefaultArgs == [thresholds |-> [min |-> 0, max |-> 1], baseProb |-> 10, maxProb |-> 95,
                higherValuesGiveHigherProb |-> TRUE]

\* the component after its first render
InitComponent ==
  /\ location = ""
  /\ selectedDate = "d1"
  /\ coords = NoCoords
  /\ weatherData = <<>>
  /\ isLoading = FALSE
  /\ forecastData = <<>>
  /\ viewMode = "current"
  /\ toast = "none"
  /\ geoPending = 0
  /\ weatherPending = <<>>
  /\ forecastPending = 0
  /\ shown = NoQuery
  /\ carried = "none"
  /\ latestPending = FALSE

Init ==
  /\ InitComponent
  /\ args = DefaultArgs
  /\ calls = <<>>
  /\ built = <<>>

\* --------------------------------------------------------------- actions
\* the requests in flight
InFlight == geoPending + Len(weatherPending) + forecastPending

\* fetchWeather without its setWeatherData([])
fetchWeather_keepsData(lat_lon, date) ==
  /\ isLoading' = TRUE
  /\ UNCHANGED << weatherData, shown, carried >>
  /\ latestPending' = TRUE
  /\ weatherPending' = Append(weatherPending, [coords |-> lat_lon, date |-> date])

\* fetchWeather up to its first await
fetchWeather(lat_lon, date) ==
  /\ isLoading' = TRUE
  /\ weatherData' = <<>>
  /\ shown' = NoQuery
  /\ carried' = IF carried = "held" THEN "discarded" ELSE carried
  /\ latestPending' = TRUE
  /\ weatherPending' = Append(weatherPending, [coords |-> lat_lon, date |-> date])

\* fetchForecast up to its first await
fetchForecast ==
  forecastPending' = forecastPending + 1

\* useEffect(..., [coords, selectedDate, viewMode]) after a render that changed
\* a dependency; loading is the value the render committed for isLoading
useEffect(c, d, m, loading) ==
  IF c # NoCoords /\ d # NoDate
  THEN /\ fetchWeather(c, d)
       /\ IF m = "forecast" THEN fetchForecast ELSE UNCHANGED forecastPending
       /\ InFlight' <= MaxPending
       /\ Len(weatherPending') <= MaxWeather
  ELSE /\ isLoading' = loading
       /\ UNCHANGED << weatherData, shown, carried, latestPending, weatherPending,
                       forecastPending >>

\* Controls: typing into the search box
setLocation(text) ==
  /\ text # location
  /\ location' = text
  /\ UNCHANGED << selectedDate, coords, weatherData, isLoading, forecastData, viewMode,
                  toast, geoPending, weatherPending, forecastPending, shown, carried, latestPending >>

\* Controls: picking another day or clearing the selection
setSelectedDate(d) ==
  /\ d # selectedDate
  /\ selectedDate' = d
  /\ UNCHANGED << location, coords, forecastData, viewMode, toast, geoPending >>
  /\ useEffect(coords, d, viewMode, isLoading)

\* Controls: switching between the current and the forecast view
setViewMode(m) ==
  /\ m # viewMode
  /\ viewMode' = m
  /\ UNCHANGED << location, selectedDate, coords, forecastData, toast, geoPending >>
  /\ useEffect(coords, selectedDate, m, isLoading)

\* handleSearch that does not await the geocoder: it sets the coordinates of the
\* place searched for at once, while the geocoding request is in flight
handleSearch_noAwait(searchLocation) ==
  LET searchTerm == IF searchLocation # "" THEN searchLocation ELSE location IN
  IF searchTerm = ""
  THEN /\ toast' = "Please enter a location to search."
       /\ UNCHANGED << location, selectedDate, coords, weatherData, isLoading, forecastData,
                       viewMode, geoPending, weatherPending, forecastPending, shown,
                       carried, latestPending >>
  ELSE /\ geoPending' = geoPending + 1
       /\ coords' = searchTerm
       /\ UNCHANGED << location, selectedDate, forecastData, viewMode, toast >>
       /\ useEffect(searchTerm, selectedDate, viewMode, TRUE)

\* handleSearch up to its first await; searchLocation "" is the omitted argument
handleSearch(searchLocation) ==
  LET searchTerm == IF searchLocation # "" THEN searchLocation ELSE location IN
  IF searchTerm = ""
  THEN /\ toast' = "Please enter a location to search."
       /\ UNCHANGED << location, selectedDate, coords, weatherData, isLoading, forecastData,
                       viewMode, geoPending, weatherPending, forecastPending, shown,
                       carried, latestPending >>
  ELSE /\ InFlight < MaxPending
       /\ isLoading' = TRUE
       /\ geoPending' = geoPending + 1
       /\ carried' = IF weatherData # <<>> THEN "held" ELSE "none"
       /\ UNCHANGED latestPending
       /\ UNCHANGED << location, selectedDate, coords, weatherData, forecastData, viewMode,
                       toast, weatherPending, forecastPending, shown >>

\* handleSearch resumes: the geocoder found a place
GeocodeFound(place) ==
  /\ geoPending > 0
  /\ geoPending' = geoPending - 1
  /\ coords' = place
  /\ location' = place
  /\ toast' = "Location found"
  /\ useEffect(place, selectedDate, viewMode, FALSE)
  /\ UNCHANGED << selectedDate, forecastData, viewMode >>

\* handleSearch resumes: the geocoder returned an empty list
GeocodeNotFound ==
  /\ geoPending > 0
  /\ geoPending' = geoPending - 1
  /\ toast' = "Location not found"
  /\ isLoading' = FALSE
  /\ UNCHANGED << location, selectedDate, coords, weatherData, forecastData, viewMode,
                  weatherPending, forecastPending, shown, carried, latestPending >>

\* handleSearch resumes: fetch or response.json() rejected
GeocodeError ==
  /\ geoPending > 0
  /\ geoPending' = geoPending - 1
  /\ toast' = "Error fetching location"
  /\ isLoading' = FALSE
  /\ UNCHANGED << location, selectedDate, coords, weatherData, forecastData, viewMode,
                  weatherPending, forecastPending, shown, carried, latestPending >>

RemoveAt(s, i) == SubSeq(s, 1, i - 1) \o SubSeq(s, i + 1, Len(s))

\* fetchWeather resumes with the daily readings of its date
WeatherLoaded(i, maxTemp, minTemp, rain, wind) ==
  /\ i \in 1..Len(weatherPending)
  /\ weatherPending' = RemoveAt(weatherPending, i)
  /\ weatherData' = processed(maxTemp, minTemp, rain, wind)
  /\ shown' = weatherPending[i]
  /\ carried' = "none"
  /\ latestPending' = (latestPending /\ i # Len(weatherPending))
  /\ toast' = "Weather data loaded"
  /\ isLoading' = FALSE
  /\ UNCHANGED << location, selectedDate, coords, forecastData, viewMode, geoPending,
                  forecastPending >>

\* fetchWeather resumes with { error, reason } from the API
WeatherApiError(i) ==
  /\ i \in 1..Len(weatherPending)
  /\ weatherPending' = RemoveAt(weatherPending, i)
  /\ toast' = "data.reason"
  /\ isLoading' = FALSE
  /\ UNCHANGED << location, selectedDate, coords, weatherData, forecastData, viewMode,
                  geoPending, forecastPending, shown, carried >>
  /\ latestPending' = (latestPending /\ i # Len(weatherPending))

\* fetchWeather resumes in its catch: the fetch rejected or the body had no daily
WeatherFetchError(i) ==
  /\ i \in 1..Len(weatherPending)
  /\ weatherPending' = RemoveAt(weatherPending, i)
  /\ toast' = "Error fetching weather data"
  /\ isLoading' = FALSE
  /\ UNCHANGED << location, selectedDate, coords, weatherData, forecastData, viewMode,
                  geoPending, forecastPending, shown, carried >>
  /\ latestPending' = (latestPending /\ i # Len(weatherPending))

\* fetchForecast resumes with the days of the response
ForecastLoaded(days) ==
  /\ forecastPending > 0
  /\ forecastPending' = forecastPending - 1
  /\ forecastData' = days
  /\ UNCHANGED << location, selectedDate, coords, weatherData, isLoading, viewMode, toast,
                  geoPending, weatherPending, shown, carried, latestPending >>

\* fetchForecast resumes with data.error, or in its catch
ForecastFailed(message) ==
  /\ forecastPending > 0
  /\ forecastPending' = forecastPending - 1
  /\ toast' = message
  /\ UNCHANGED << location, selectedDate, coords, weatherData, isLoading, forecastData,
                  viewMode, geoPending, weatherPending, shown, carried, latestPending >>

Next ==
  \/ \E text \in Terms : setLocation(text) /\ UNCHANGED harnessVars
  \/ \E d \in Dates \cup {NoDate} : setSelectedDate(d) /\ UNCHANGED harnessVars
  \/ \E m \in {"current", "forecast"} : setViewMode(m) /\ UNCHANGED harnessVars
  \/ \E t \in Terms : handleSearch(t) /\ UNCHANGED harnessVars
  \/ \E p \in Places : GeocodeFound(p) /\ UNCHANGED harnessVars
  \/ GeocodeNotFound /\ UNCHANGED harnessVars
  \/ GeocodeError /\ UNCHANGED harnessVars
  \/ \E i \in 1..MaxPending, d \in SampleReadings :
       WeatherLoaded(i, d[1], d[2], d[3], d[4]) /\ UNCHANGED harnessVars
  \/ \E i \in 1..MaxPending : WeatherApiError(i) /\ UNCHANGED harnessVars
  \/ \E i \in 1..MaxPending : WeatherFetchError(i) /\ UNCHANGED harnessVars
  \/ \E days \in ForecastResponses : ForecastLoaded(days) /\ UNCHANGED harnessVars
  \/ \E message \in {"data.reason", "Error fetching forecast data"} :
       ForecastFailed(message) /\ UNCHANGED harnessVars

Spec == Init /\ [][Next]_vars

\* ------------------------------------------------------ scorer harness
\* calculateProbability applied to drawn arguments: the range and the two
\* scores are fixed by the initial state, the values vary call by call
ArgSpace ==
  { [thresholds |-> [min |-> lo, max |-> hi], baseProb |-> b, maxProb |-> m,
     higherValuesGiveHigherProb |-> h] :
       lo \in (-1)..MaxEdge, hi \in (-1)..MaxEdge, b \in 0..MaxProbArg,
       m \in 0..MaxProbArg, h \in BOOLEAN }

Values == { Num(n) : n \in (-2)..(MaxEdge + 1) } \cup {Null, Undefined, NaN}

InitScore ==
  /\ InitComponent
  /\ args \in { a \in ArgSpace : a.thresholds.min < a.thresholds.max }
  /\ calls = <<>>
  /\ built = <<>>

Score(value) ==
  LET call == [value |-> value,
               result |-> calculateProbability(value, args.thresholds, args.baseProb,
                                               args.maxProb, args.higherValuesGiveHigherProb)]
  IN /\ calls' = IF Len(calls) = 2 THEN << calls[2], call >> ELSE Append(calls, call)
     /\ UNCHANGED << args, built >>
     /\ UNCHANGED compVars

NextScore == \E value \in Values : Score(value)

SpecScore == InitScore /\ [][NextScore]_vars

\* -------------------------------------------------- processing harness
\* the records fetchWeather builds, for every combination of the readings;
\* each run of the harness processes one response
Process(maxTemp, minTemp, rain, wind) ==
  /\ built = <<>>
  /\ built' = processed(maxTemp, minTemp, rain, wind)
  /\ UNCHANGED << args, calls >>
  /\ UNCHANGED compVars

NextProcess ==
  \E a \in MaxTempReadings, b \in MinTempReadings, r \in RainReadings, w \in WindReadings :
    Process(a, b, r, w)

SpecProcess == Init /\ [][NextProcess]_vars

\* =============================================================== claims
\* the calls the scorer harness remembers
Calls == { calls[i] : i \in 1..Len(calls) }
IsNumber(value) == value.k = "number"
Width == args.thresholds.max - args.thresholds.min
Abs(x) == IF x < 0 THEN -x ELSE x

\* C1: with a numeric value at or below range.min the result is exactly
\* baseScore when ascending and maxScore when descending; at or above
\* range.max it is exactly maxScore when ascending and baseScore when
\* descending.
C1_Saturates ==
  \A c \in Calls :
    IsNumber(c.value) =>
      /\ c.value.n <= args.thresholds.min =>
           c.result = (IF args.higherValuesGiveHigherProb THEN args.baseProb
                       ELSE args.maxProb)
      /\ c.value.n >= args.thresholds.max =>
           c.result = (IF args.higherValuesGiveHigherProb THEN args.maxProb
                       ELSE args.baseProb)

\* a descending call below the range returned maxScore, an ascending one above
\* the range returned maxScore too, with baseScore different from maxScore
C1_Witness ==
  /\ args.baseProb # args.maxProb
  /\ ~args.higherValuesGiveHigherProb
  /\ Len(calls) = 2
  /\ IsNumber(calls[1].value) /\ calls[1].value.n < args.thresholds.min
  /\ calls[1].result = args.maxProb
  /\ IsNumber(calls[2].value) /\ calls[2].value.n = args.thresholds.max
  /\ calls[2].result = args.baseProb

\* the interpolation of the claim as the exact fraction InterpNum / Width
InterpNum(value) ==
  IF args.higherValuesGiveHigherProb
  THEN args.baseProb * Width + (value.n - args.thresholds.min) * (args.maxProb - args.baseProb)
  ELSE args.maxProb * Width + (value.n - args.thresholds.min) * (args.baseProb - args.maxProb)

\* C2: for a value strictly inside the range the result is an integer nearest
\* to the linear interpolation (baseScore towards maxScore when ascending,
\* maxScore towards baseScore when descending): it differs from it by at most
\* one half.
C2_Interpolates ==
  \A c \in Calls :
    (IsNumber(c.value) /\ args.thresholds.min < c.value.n /\ c.value.n < args.thresholds.max)
      => /\ c.result \in Int
         /\ 2 * Abs(c.result * Width - InterpNum(c.value)) <= Width

\* a descending call strictly inside the range whose interpolation is not a
\* whole number and was rounded upwards
C2_Witness ==
  \E c \in Calls :
    /\ ~args.higherValuesGiveHigherProb
    /\ IsNumber(c.value)
    /\ args.thresholds.min < c.value.n /\ c.value.n < args.thresholds.max
    /\ c.result * Width > InterpNum(c.value)

\* C3: for baseScore <= maxScore and two numeric values value1 < value2 of the
\* same range, the ascending scores satisfy score(value1) <= score(value2) and
\* the descending ones score(value1) >= score(value2).
C3_Monotone ==
  \A c1 \in Calls, c2 \in Calls :
    (/\ args.baseProb <= args.maxProb
     /\ IsNumber(c1.value) /\ IsNumber(c2.value)
     /\ c1.value.n < c2.value.n)
      => IF args.higherValuesGiveHigherProb THEN c1.result <= c2.result
         ELSE c1.result >= c2.result

\* two calls across the transition from the interpolated to the clamped
\* region, with different scores
C3_Witness ==
  /\ Len(calls) = 2
  /\ args.baseProb < args.maxProb
  /\ args.higherValuesGiveHigherProb
  /\ IsNumber(calls[1].value) /\ IsNumber(calls[2].value)
  /\ args.thresholds.min < calls[1].value.n /\ calls[1].value.n < args.thresholds.max
  /\ calls[2].value.n >= args.thresholds.max
  /\ calls[1].result < calls[2].result

\* C4: a value that is null, undefined or NaN yields baseScore, whatever the
\* range and the direction, and every call returns a number.
C4_MissingGivesBase ==
  \A c \in Calls :
    /\ c.result \in Int
    /\ c.value.k \in {"null", "undefined", "NaN"} => c.result = args.baseProb

\* a null value scored over a range that lies below zero, where the number 0
\* would have scored maxScore
C4_Witness ==
  \E c \in Calls :
    /\ c.value = Null
    /\ args.higherValuesGiveHigherProb
    /\ args.thresholds.max <= 0
    /\ args.baseProb # args.maxProb
    /\ c.result = args.baseProb

\* C5: for baseScore <= maxScore every result, of a missing value too, lies in
\* [baseScore, maxScore], in both directions.
C5_InInterval ==
  \A c \in Calls :
    args.baseProb <= args.maxProb =>
      (args.baseProb <= c.result /\ c.result <= args.maxProb)

\* an interpolated result that rounding moved onto the upper end of the interval
C5_Witness ==
  \E c \in Calls :
    /\ IsNumber(c.value)
    /\ args.thresholds.min < c.value.n /\ c.value.n < args.thresholds.max
    /\ args.baseProb < args.maxProb
    /\ c.result = args.maxProb
    /\ InterpNum(c.value) < args.maxProb * Width

\* the record arrays to examine: the one on display and the harness's
RecordArrays == { recs \in {weatherData, built} : recs # <<>> }
Missing(value) == value.k \in {"null", "undefined", "NaN"}

\* C6: every condition record carries the band of its own probability: high
\* exactly when it is >= 70, medium exactly when it is in 40..69, low exactly
\* when it is < 40.
C6_Severity ==
  \A recs \in RecordArrays : \A i \in 1..Len(recs) :
    LET p == recs[i].probability
        band == recs[i].severity
    IN /\ band \in {"low", "medium", "high"}
       /\ band = "high" <=> p >= 70
       /\ band = "medium" <=> (40 <= p /\ p < 70)
       /\ band = "low" <=> p < 40

\* records on both sides of both cutoffs: 40 is medium and 70 is high
C6_Witness ==
  /\ built # <<>>
  /\ built[1].probability = 40 /\ built[1].severity = "medium"
  /\ built[2].probability = 70 /\ built[2].severity = "high"

\* C7: the storm-risk score (the Cloudy record) is 5 when either reading is
\* missing or rain * wind <= 50, it is 80 when rain * wind >= 500, in between
\* it is an integer nearest to 5 + (rain * wind - 50) / 450 * 75, and it never
\* exceeds 80.
C7_StormRisk ==
  \A recs \in RecordArrays :
    LET rain == recs[3].actualValue
        wind == recs[4].actualValue
        storm == recs[5].probability
        lo == 50 * Scale * Scale
        hi == 500 * Scale * Scale
    IN /\ storm <= 80
       /\ (Missing(rain) \/ Missing(wind)) => storm = 5
       /\ (~Missing(rain) /\ ~Missing(wind)) =>
            LET product == rain.n * wind.n
            IN /\ product <= lo => storm = 5
               /\ product >= hi => storm = 80
               /\ (lo < product /\ product < hi) =>
                    2 * Abs(storm * (hi - lo) - (5 * (hi - lo) + (product - lo) * 75))
                      <= hi - lo

\* rain = 25 and wind = 60: the product 1500 is clamped to 80, severity high
C7_Witness ==
  /\ built # <<>>
  /\ built[3].actualValue = Num(25 * Scale)
  /\ built[4].actualValue = Num(60 * Scale)
  /\ built[5].probability = 80
  /\ built[5].severity = "high"

\* C8: the discomfort index (the Uncomfortable record) is an integer of 0..99
\* equal to min(99, r), r an integer nearest to (hotScore + wetScore) * 0.6 plus
\* 10 when windyScore is strictly greater than 70.
C8_Discomfort ==
  \A recs \in RecordArrays :
    LET hot == recs[1].probability
        wet == recs[3].probability
        windy == recs[4].probability
        index == recs[6].probability
        tenfold == 6 * (hot + wet) + (IF windy > 70 THEN 100 ELSE 0)
    IN /\ index \in 0..99
       /\ index < 99 => 2 * Abs(10 * index - tenfold) <= 10
       /\ index = 99 => tenfold >= 985

\* windyScore is exactly 70, no bonus is granted, and the index is below its cap
C8_Witness ==
  /\ built # <<>>
  /\ built[4].probability = 70
  /\ built[6].probability < 99
  /\ 2 * Abs(10 * built[6].probability - 6 * (built[1].probability + built[3].probability))
       <= 10

\* C9 as stated: at most one network request is in flight at a time.
C9_AtMostOneInFlight == InFlight <= 1

\* C9 as amended: requests are chained, not exclusive. A weather request is
\* only issued for the coordinates the component holds, the coordinates only
\* change in the step that completes a geocoding request, and a forecast
\* request is only issued together with a weather request.
C9_Chained ==
  [][ /\ Len(weatherPending') > Len(weatherPending) =>
           /\ weatherPending'[Len(weatherPending')].coords = coords'
           /\ coords' # NoCoords
      /\ coords' # coords => geoPending' = geoPending - 1
      /\ forecastPending' > forecastPending => Len(weatherPending') > Len(weatherPending)
    ]_vars

\* a search has completed and its weather and forecast requests are both in flight
C9_Witness ==
  /\ toast = "Location found"
  /\ geoPending = 0
  /\ Len(weatherPending) = 1
  /\ weatherPending[1].coords = coords
  /\ forecastPending = 1

\* C10 as stated: once the search has completed, whatever its outcome, the
\* records that were on display when it was invoked are no longer on display.
C10_DiscardedOnSearch ==
  [][ (geoPending = 1 /\ geoPending' = 0) => carried' # "held" ]_vars

\* C10 as amended: a search that completes with a location found while a date
\* is selected leaves weatherData empty; a search that completes with location
\* not found, with an error, or with no date selected leaves weatherData as it
\* was.
C10_DiscardedWhenFound ==
  [][ geoPending' < geoPending =>
        IF toast' = "Location found" /\ selectedDate # NoDate
        THEN weatherData' = <<>>
        ELSE weatherData' = weatherData ]_vars

\* the records on display when a search was invoked have been emptied by the
\* fetchWeather that the location it found set off
C10_Witness ==
  /\ carried = "discarded"
  /\ toast = "Location found"
  /\ geoPending = 0
  /\ weatherData = <<>>
  /\ Len(weatherPending) = 1

\* the query asked for last, while coordinates and a date are both held: every
\* change of coords or selectedDate runs the effect with the values it committed
LatestQuery == [coords |-> coords, date |-> selectedDate]

\* once no fetchWeather request is pending the records on display, if any, are
\* those of the query asked for last (stated while a date is selected)
NoStaleRecords ==
  (coords # NoCoords /\ selectedDate # NoDate /\ weatherPending = <<>>)
    => (weatherData = <<>> \/ shown = LatestQuery)

\* C11: whenever a fetchWeather request completes, in whatever order, then if
\* none is left pending weatherData is empty or holds the records of the
\* (coords, selectedDate) asked for last, never those of a superseded query,
\* and if the request issued last is still in flight isLoading stays true.
C11_LatestWins ==
  [][ Len(weatherPending') < Len(weatherPending) =>
        /\ NoStaleRecords'
        /\ latestPending' => isLoading' ]_vars

====
